---- MODULE Spec2Model ----
(***************************************************************************)
(* Model of simple_scraper.py: the Sedgwick County inmate-search scraper   *)
(* (SedgwickScraper) and the Flask facade (api_search, api_details).       *)
(*                                                                         *)
(* A text is a sequence of atoms.  An atom is either one whitespace        *)
(* character (" " or "\n") or a non-empty chunk of non-whitespace          *)
(* characters ("a", "N/A", "InmateID=", "7", ...).  Two adjacent chunks    *)
(* form one word, as adjacent characters do in a Python str.               *)
(***************************************************************************)
EXTENDS Integers, Sequences, FiniteSets, TLC

VARIABLES
    pc,        \* position of the request being served
    args,      \* last_name / first_name / booking_number of api_search
    wire,      \* the HTTP request in flight to the upstream site
    soup,      \* the document returned by the last HTTP request
    ret,       \* value returned by search_inmates / get_inmate_details
    resp,      \* the facade's JSON response
    events,    \* HTTP events of the current call, in order
    failedAt,  \* the point of the call at which a failure was raised
    text,      \* argument of _clean_text
    cleaned,   \* _clean_text(text)
    recleaned  \* _clean_text(_clean_text(text))

vars == <<pc, args, wire, soup, ret, resp, events, failedAt,
          text, cleaned, recleaned>>

(***************************************************************************)
(* Bounds                                                                  *)
(***************************************************************************)
MaxLen == 3          \* longest argument of _clean_text
MaxTables == 2       \* tables on a results page
MaxRows == 2         \* data rows of a results table
MaxCells == 6        \* td cells of a data row
MaxLinks == 2        \* links in the first cell of a row
MaxHref == 3         \* atoms of an href
MaxLabels == 2       \* label elements of a detail page
MaxChargeRows == 2   \* non-header rows of a charges table
MaxChargeCells == 2  \* td cells of a charges row

(***************************************************************************)
(* Texts                                                                   *)
(***************************************************************************)
WS == {" ", "\n"}

SeqsUpTo(S, n) == UNION {[1..k -> S] : k \in 0..n}

NA == <<"N/A">>

\* str.split(): the maximal runs of non-whitespace, in order.
RECURSIVE SplitFrom(_, _, _)
SplitFrom(s, cur, acc) ==
    IF s = <<>>
    THEN IF cur = <<>> THEN acc ELSE Append(acc, cur)
    ELSE IF Head(s) \in WS
         THEN SplitFrom(Tail(s), <<>>,
                        IF cur = <<>> THEN acc ELSE Append(acc, cur))
         ELSE SplitFrom(Tail(s), Append(cur, Head(s)), acc)

Split(s) == SplitFrom(s, <<>>, <<>>)

\* sep.join(words)
RECURSIVE Join(_, _)
Join(words, sep) ==
    IF words = <<>> THEN <<>>
    ELSE IF Len(words) = 1 THEN Head(words)
    ELSE Head(words) \o sep \o Join(Tail(words), sep)

\* str.strip()
RECURSIVE LStrip(_)
LStrip(s) ==
    IF s # <<>> /\ Head(s) \in WS THEN LStrip(Tail(s)) ELSE s

RECURSIVE RStrip(_)
RStrip(s) ==
    IF s # <<>> /\ s[Len(s)] \in WS
    THEN RStrip(SubSeq(s, 1, Len(s) - 1)) ELSE s

Strip(s) == RStrip(LStrip(s))

\* SedgwickScraper._clean_text
clean_text(t) ==
    IF t = <<>> THEN NA
    ELSE Strip(Join(Split(t), <<" ">>))

(***************************************************************************)
(* Documents                                                               *)
(*   attribute : [has, v]            an attribute that may be missing      *)
(*   link      : [href : attribute]  an <a> element                        *)
(*   cell      : [text, links]       a <td>: its text and its <a>s         *)
(*   row       : sequence of cells   a <tr>; a header row has no <td>      *)
(*   table     : [id, class, rows]                                         *)
(***************************************************************************)
NoAttr == [has |-> FALSE, v |-> <<>>]
Attr(v) == [has |-> TRUE, v |-> v]

Lower(a) ==
    CASE a \in {"Grid", "GRID", "grid"} -> "grid"
      [] a \in {"View", "view"} -> "view"
      [] a \in {"Result", "result"} -> "result"
      [] a \in {"Charges", "charges"} -> "charges"
      [] OTHER -> a

\* re.compile(<word>, re.I).search(v) for a pattern of consecutive atoms
SearchI(pattern, v) ==
    \E i \in 1..Len(v) :
        /\ i + Len(pattern) - 1 <= Len(v)
        /\ \A k \in 1..Len(pattern) : Lower(v[i + k - 1]) = pattern[k]

\* soup.find('table', {'id': re.compile('GridView', re.I)})
IdMatchesGridView(t) == t.id.has /\ SearchI(<<"grid", "view">>, t.id.v)

\* soup.find('table', {'class': re.compile('grid|result', re.I)})
ClassMatchesGridResult(t) ==
    t.class.has /\ (SearchI(<<"grid">>, t.class.v) \/ SearchI(<<"result">>, t.class.v))

\* soup.find('table', {'id': re.compile('Charges', re.I)})
IdMatchesCharges(t) == t.id.has /\ SearchI(<<"charges">>, t.id.v)

\* soup.find: index of the first table that matches, 0 when there is none
First(hits) ==
    IF hits = {} THEN 0 ELSE CHOOSE i \in hits : \A j \in hits : i <= j

FindByGridViewId(tables) ==
    First({i \in 1..Len(tables) : IdMatchesGridView(tables[i])})

FindByGridResultClass(tables) ==
    First({i \in 1..Len(tables) : ClassMatchesGridResult(tables[i])})

FindByChargesId(tables) ==
    First({i \in 1..Len(tables) : IdMatchesCharges(tables[i])})

Digits == {"7", "8"}

\* the maximal run of digits at the head of s
RECURSIVE DigitRun(_)
DigitRun(s) ==
    IF s # <<>> /\ Head(s) \in Digits
    THEN <<Head(s)>> \o DigitRun(Tail(s)) ELSE <<>>

\* re.search(r'InmateID=(\d+)', href): group(1) of the leftmost match,
\* <<>> when nothing matches
RECURSIVE SearchInmateID(_)
SearchInmateID(href) ==
    IF Len(href) < 2 THEN <<>>
    ELSE IF Head(href) = "InmateID=" /\ href[2] \in Digits
         THEN DigitRun(Tail(href))
         ELSE SearchInmateID(Tail(href))

\* the rows a table parse visits: find_all('tr')[1:]
SkipHeader(rows) == IF rows = <<>> THEN <<>> ELSE Tail(rows)

\* a variant that examines the last link of the cell
LastLink(cell) == Len(cell.links)

\* cells[0].find('a'): index of the link that is examined, 0 when none
FirstLink(cell) == IF cell.links = <<>> THEN 0 ELSE 1

\* lines 116-125: the positional fields of one row
CellField(cells, i) ==
    IF Len(cells) > i THEN clean_text(cells[i + 1].text) ELSE NA

BaseInmate(cells) ==
    [name           |-> CellField(cells, 0),
     booking_number |-> CellField(cells, 1),
     booking_date   |-> CellField(cells, 2),
     age            |-> CellField(cells, 3),
     gender         |-> CellField(cells, 4),
     race           |-> CellField(cells, 5),
     facility       |-> <<"Sedgwick", " ", "County", " ", "Jail">>,
     source         |-> <<"sedgwick_county">>]

\* lines 127-133: the inmate_id key is added only when the regex matches
WithInmateId(inmate, cells) ==
    LET l == FirstLink(cells[1]) IN
    IF l # 0 /\ cells[1].links[l].href.has
            /\ SearchInmateID(cells[1].links[l].href.v) # <<>>
    THEN [k \in DOMAIN inmate \cup {"inmate_id"} |->
             IF k = "inmate_id"
             THEN SearchInmateID(cells[1].links[l].href.v)
             ELSE inmate[k]]
    ELSE inmate

\* a variant that asks for more than 3 cells
RowQualifiesStrict(cells) == Len(cells) > 3

\* line 115
RowQualifies(cells) == Len(cells) >= 3

\* lines 113-135: the loop over the rows
RECURSIVE ParseRows(_, _)
ParseRows(rows, inmates) ==
    IF rows = <<>> THEN inmates
    ELSE ParseRows(Tail(rows),
                   IF RowQualifies(Head(rows))
                   THEN Append(inmates,
                               WithInmateId(BaseInmate(Head(rows)), Head(rows)))
                   ELSE inmates)

\* a variant that takes the first table matching by id or by class
LocateFirstEither(tables) ==
    LET hits == {i \in 1..Len(tables) :
                    IdMatchesGridView(tables[i]) \/ ClassMatchesGridResult(tables[i])}
    IN  IF hits = {} THEN 0
        ELSE CHOOSE i \in hits : \A j \in hits : i <= j

\* lines 105-108: index of the results table, 0 when none
LocateResultsTable(tables) ==
    IF FindByGridViewId(tables) # 0
    THEN FindByGridViewId(tables)
    ELSE FindByGridResultClass(tables)

\* SedgwickScraper._parse_results
parse_results(page) ==
    LET t == LocateResultsTable(page.tables) IN
    IF t # 0 THEN ParseRows(SkipHeader(page.tables[t].rows), <<>>)
    ELSE <<>>

(***************************************************************************)
(* Detail page: [labels, tables]                                           *)
(*   label : [text, hasSibling, sibling]   a <span class="...label...">    *)
(*           and the text of its next sibling element, when it has one     *)
(* A dict is a function; the value of a detail key is a text or a list.    *)
(***************************************************************************)
EmptyDict == [k \in {} |-> 0]
Put(d, k, v) == [x \in DOMAIN d \cup {k} |-> IF x = k THEN v ELSE d[x]]

TextVal(t) == [kind |-> "text", text |-> t, list |-> <<>>]
ListVal(l) == [kind |-> "list", text |-> <<>>, list |-> l]

ChargesKey == <<"charges">>

\* lines 146-151: the loop over the labels
RECURSIVE ParseLabels(_, _)
ParseLabels(labels, details) ==
    IF labels = <<>> THEN details
    ELSE ParseLabels(Tail(labels),
                     IF Head(labels).hasSibling
                     THEN Put(details, clean_text(Head(labels).text),
                              TextVal(clean_text(Head(labels).sibling)))
                     ELSE details)

\* [self._clean_text(c.text) for c in cells]
CleanCells(cells) == [i \in 1..Len(cells) |-> clean_text(cells[i].text)]

\* a variant that joins the cell texts as they are
ChargeOfRaw(cells) == Join([i \in 1..Len(cells) |-> cells[i].text], <<" ">>)

\* line 161
ChargeOf(cells) == Join(CleanCells(cells), <<" ">>)

\* lines 158-162: the loop over the rows of the charges table
RECURSIVE ParseCharges(_, _)
ParseCharges(rows, charges) ==
    IF rows = <<>> THEN charges
    ELSE ParseCharges(Tail(rows),
                      IF Head(rows) # <<>>
                      THEN Append(charges, ChargeOf(Head(rows)))
                      ELSE charges)

\* SedgwickScraper._parse_inmate_details
parse_inmate_details(page) ==
    LET details == ParseLabels(page.labels, EmptyDict)
        t == FindByChargesId(page.tables)
    IN  IF t # 0
        THEN Put(details, ChargesKey,
                 ListVal(ParseCharges(SkipHeader(page.tables[t].rows), <<>>)))
        ELSE details

(***************************************************************************)
(* Search form page: for each token name, whether the page has an input    *)
(* of that name and the input's value attribute.                           *)
(***************************************************************************)
TokenNames == {"__VIEWSTATE", "__VIEWSTATEGENERATOR", "__EVENTVALIDATION"}
QueryNames == {"txtLastName", "txtFirstName", "txtBookingNumber"}

\* a variant that sends the empty string for a missing input
TokenEntryDefault(form_data, page, name) ==
    Put(form_data, name,
        IF page[name].present /\ page[name].value.has
        THEN page[name].value.v ELSE <<>>)

\* lines 85-87, 90-92, 95-97: one token
TokenEntry(form_data, page, name) ==
    IF page[name].present
    THEN Put(form_data, name,
             IF page[name].value.has THEN page[name].value.v ELSE <<>>)
    ELSE form_data

\* SedgwickScraper._get_form_data
get_form_data(page) ==
    TokenEntry(TokenEntry(TokenEntry(EmptyDict, page, "__VIEWSTATE"),
                          page, "__VIEWSTATEGENERATOR"),
               page, "__EVENTVALIDATION")

\* lines 43-46: the search parameters added to the form data
WithQuery(form_data, q) ==
    Put(Put(Put(Put(form_data, "txtLastName", q.last_name),
                "txtFirstName", q.first_name),
            "txtBookingNumber", q.booking_number),
        "btnSearch", <<"Search">>)

(***************************************************************************)
(* Inputs: the texts, pages and request parameters the environment may     *)
(* supply.  Pages come in families, each varying one aspect of the markup. *)
(***************************************************************************)
Chars == {"a", " ", "\n"}
Texts == SeqsUpTo(Chars, MaxLen)

Cell(t) == [text |-> t, links |-> <<>>]
LinkCell(t, ls) == [text |-> t, links |-> ls]

TableMarkers == <<"t1", "t2", "t3", "t4">>
RowMarkers == <<"r1", "r2", "r3", "r4", "r5">>

ThHeader == <<>>
TdHeader == <<Cell(<<"Name">>), Cell(<<"Booking">>), Cell(<<"Date">>)>>
Headers == {ThHeader, TdHeader}

GridViewId == Attr(<<"Grid", "View", "x">>)

IdAttrs == {NoAttr, Attr(<<"x", "grid", "view">>), Attr(<<"grid">>)}
ClassAttrs == {NoAttr, Attr(<<"x", "GRID">>), Attr(<<"Result", "x">>)}

\* a table whose only data row names the table's position on the page
MarkedTable(i, id, class) ==
    [id |-> id, class |-> class,
     rows |-> <<ThHeader,
                <<Cell(<<TableMarkers[i]>>), Cell(<<"b">>), Cell(<<"c">>)>>>>]

\* pages that vary the number of tables and their id and class
TablePages ==
    UNION {{[tables |-> [i \in 1..n |-> MarkedTable(i, ids[i], cls[i])]] :
               ids \in [1..n -> IdAttrs], cls \in [1..n -> ClassAttrs]} :
           n \in 0..MaxTables}

\* a data row of c cells whose first cell names the row's position
ShapedRow(r, c) ==
    [j \in 1..c |-> Cell(IF j = 1 THEN <<RowMarkers[r]>> ELSE <<"c">>)]

\* pages that vary the header, the number of data rows and their lengths
ShapePages ==
    {[tables |-> <<[id |-> GridViewId, class |-> NoAttr,
                    rows |-> <<h>> \o [r \in 1..Len(shape) |->
                                          ShapedRow(r, shape[r])]]>>] :
        h \in Headers, shape \in SeqsUpTo(0..MaxCells, MaxRows)}

CellTexts == {<<>>, <<" ">>, <<" ", "a", " ", "\n", "b">>}

\* pages that vary the texts of the cells of one data row
ContentPages ==
    {[tables |-> <<[id |-> GridViewId, class |-> NoAttr,
                    rows |-> <<ThHeader,
                               [j \in 1..Len(ts) |-> Cell(ts[j])]>>]>>] :
        ts \in SeqsUpTo(CellTexts, MaxCells)}

HrefAtoms == {"InmateID=", "7", "x"}
Hrefs == SeqsUpTo(HrefAtoms, MaxHref)
NoHrefLink == [href |-> NoAttr]
ShortLinks == {NoHrefLink, [href |-> Attr(<<"x">>)],
               [href |-> Attr(<<"InmateID=", "7">>)]}

LinkRow(ls) == <<LinkCell(<<"n">>, ls), Cell(<<"b">>), Cell(<<"c">>)>>

\* pages that vary the links of the first cell of one data row: one link
\* of any href, or several links
LinkPages ==
    {[tables |-> <<[id |-> GridViewId, class |-> NoAttr,
                    rows |-> <<ThHeader, LinkRow(ls)>>]>>] :
        ls \in {<<[href |-> Attr(h)]>> : h \in Hrefs}
               \cup SeqsUpTo(ShortLinks, MaxLinks)}

ResultPages == TablePages \cup ShapePages \cup ContentPages \cup LinkPages

LabelTexts == {<<"a">>, <<" ", "a">>, <<"charges">>}
SiblingTexts == {<<"w", " ", " ", "v">>, <<" ">>}
Labels ==
    {[text |-> t, hasSibling |-> FALSE, sibling |-> <<>>] : t \in LabelTexts}
    \cup {[text |-> t, hasSibling |-> TRUE, sibling |-> v] :
             t \in LabelTexts, v \in SiblingTexts}

ChargeTable(id, rows) == [id |-> id, class |-> NoAttr, rows |-> rows]
ChargesId == Attr(<<"Charges">>)

\* pages that vary the labels, with or without a one-row charges table
LabelPages ==
    {[labels |-> ls, tables |-> ts] :
        ls \in SeqsUpTo(Labels, MaxLabels),
        ts \in {<<>>, <<ChargeTable(ChargesId,
                                    <<ThHeader, <<Cell(<<"theft">>)>>>>)>>}}

ChargeIds == {NoAttr, ChargesId, Attr(<<"tbl", "charges", "x">>), Attr(<<"x">>)}
\* a charges row of c cells whose cell p, if any, holds only a space
ChargeRow(c, p) ==
    [j \in 1..c |-> Cell(IF j = p THEN <<" ">> ELSE <<"a", " ", " ", "b">>)]
ChargeRows == {ChargeRow(c, p) : c \in 0..MaxChargeCells, p \in 0..MaxChargeCells}

OneLabel == <<[text |-> <<"Name", " ">>, hasSibling |-> TRUE,
               sibling |-> <<"v">>]>>

\* pages with one label that vary the id of the table, or its rows
ChargePages ==
    {[labels |-> OneLabel,
      tables |-> <<ChargeTable(id, <<ThHeader, <<Cell(<<"theft">>)>>>>)>>] :
        id \in ChargeIds}
    \cup
    {[labels |-> OneLabel, tables |-> <<ChargeTable(ChargesId, rows)>>] :
        rows \in {<<>>} \cup {<<h>> \o rs :
                                 h \in Headers,
                                 rs \in SeqsUpTo(ChargeRows, MaxChargeRows)}}

DetailPages == LabelPages \cup ChargePages

TokenInputs ==
    {[present |-> FALSE, value |-> NoAttr], [present |-> TRUE, value |-> NoAttr],
     [present |-> TRUE, value |-> Attr(<<"tokA">>)],
     [present |-> TRUE, value |-> Attr(<<"tokB", " ">>)]}
FormPages == [TokenNames -> TokenInputs]

\* a query parameter of the request: missing, empty or given
Params(v) == {NoAttr, Attr(<<>>), Attr(<<v>>)}
InmateIds == {<<"7">>, <<"x">>}

(***************************************************************************)
(* State of a request                                                      *)
(***************************************************************************)
NoArgs == [last_name |-> <<>>, first_name |-> <<>>, booking_number |-> <<>>]
NoWire == [method |-> "none", url |-> "none", body |-> EmptyDict]
NoSoup == [kind |-> "none"]
NoRet == [kind |-> "unset", list |-> <<>>, dict |-> EmptyDict]
NoResp == [status |-> 0, kind |-> "none", count |-> 0, inmates |-> <<>>,
           details |-> EmptyDict]

ListRet(l) == [kind |-> "list", list |-> l, dict |-> EmptyDict]
DictRet(d) == [kind |-> "dict", list |-> <<>>, dict |-> d]
NoneRet == [kind |-> "None", list |-> <<>>, dict |-> EmptyDict]
RaisedRet == [kind |-> "raised", list |-> <<>>, dict |-> EmptyDict]

SearchPoints == {"s_get", "s_form", "s_post", "s_soup", "s_parse"}
DetailPoints == {"d_get", "d_parse"}

\* a variant whose try blocks end after the first request
TryCoversFirstGet(point) == point \in {"s_get", "d_get"}

\* the points of a call that lie inside its try block (lines 31-64, 68-78)
TryCovers(point) == point \in SearchPoints \cup DetailPoints

\* request.args.get(name, '')
ArgGet(p) == IF p.has THEN p.v ELSE <<>>

\* a variant that asks for all three fields
AllGiven(l, f, b) == l # <<>> /\ f # <<>> /\ b # <<>>

\* any([last_name, first_name, booking_number])
AnyGiven(l, f, b) == l # <<>> \/ f # <<>> \/ b # <<>>

Idle ==
    /\ pc = "idle"
    /\ args = NoArgs
    /\ wire = NoWire
    /\ soup = NoSoup
    /\ ret = NoRet
    /\ resp = NoResp
    /\ events = <<>>
    /\ failedAt = "none"
    /\ text = <<>>
    /\ cleaned = <<>>
    /\ recleaned = <<>>

Init == Idle

\* api_search, up to the call of search_inmates and its GET (lines 191-204, 36)
ApiSearch(l, f, b) ==
    /\ pc = "idle"
    /\ args' = [last_name |-> ArgGet(l), first_name |-> ArgGet(f),
                booking_number |-> ArgGet(b)]
    /\ IF ~AnyGiven(ArgGet(l), ArgGet(f), ArgGet(b))
       THEN /\ resp' = [status |-> 400, kind |-> "error", count |-> 0,
                        inmates |-> <<>>, details |-> EmptyDict]
            /\ pc' = "responded"
            /\ UNCHANGED <<wire, events>>
       ELSE /\ wire' = [method |-> "GET", url |-> "base_url", body |-> EmptyDict]
            /\ events' = <<"search_inmates", "GET">>
            /\ pc' = "s_get"
            /\ UNCHANGED resp
    /\ UNCHANGED <<soup, ret, failedAt, text, cleaned, recleaned>>

\* line 36-37: the GET returns the search page
SearchGetReturns(page) ==
    /\ pc = "s_get"
    /\ soup' = page
    /\ wire' = NoWire
    /\ events' = Append(events, "GET_ret")
    /\ pc' = "s_form"
    /\ UNCHANGED <<args, ret, resp, failedAt, text, cleaned, recleaned>>

\* lines 40-54: the form data is built and the POST is issued
SearchPost ==
    /\ pc = "s_form"
    /\ wire' = [method |-> "POST", url |-> "SearchResults.aspx",
                body |-> WithQuery(get_form_data(soup), args)]
    /\ events' = Append(events, "POST")
    /\ pc' = "s_post"
    /\ UNCHANGED <<args, soup, ret, resp, failedAt, text, cleaned, recleaned>>

\* lines 49-54: the POST returns; the query, the form data and the search
\* page are not read again
SearchPostReturns ==
    /\ pc = "s_post"
    /\ wire' = NoWire
    /\ args' = NoArgs
    /\ soup' = NoSoup
    /\ events' = Append(events, "POST_ret")
    /\ pc' = "s_soup"
    /\ UNCHANGED <<ret, resp, failedAt, text, cleaned, recleaned>>

\* line 57: the content of the response is parsed into the results page
SearchSoup(page) ==
    /\ pc = "s_soup"
    /\ soup' = page
    /\ pc' = "s_parse"
    /\ UNCHANGED <<args, wire, ret, resp, events, failedAt, text, cleaned,
                   recleaned>>

\* lines 58-60
SearchParse ==
    /\ pc = "s_parse"
    /\ ret' = ListRet(parse_results(soup))
    /\ pc' = "s_ret"
    /\ UNCHANGED <<args, wire, soup, resp, events, failedAt, text, cleaned,
                   recleaned>>

\* lines 62-64: a failure raised at any point of search_inmates
SearchRaise ==
    /\ pc \in SearchPoints
    /\ failedAt' = pc
    /\ wire' = NoWire
    /\ ret' = IF TryCovers(pc) THEN ListRet(<<>>) ELSE RaisedRet
    /\ pc' = "s_ret"
    /\ UNCHANGED <<args, soup, resp, events, text, cleaned, recleaned>>

\* lines 206-218
ApiSearchRespond ==
    /\ pc = "s_ret"
    /\ resp' = IF ret.kind = "raised"
               THEN [status |-> 500, kind |-> "error", count |-> 0,
                     inmates |-> <<>>, details |-> EmptyDict]
               ELSE [status |-> 200, kind |-> "success",
                     count |-> Len(ret.list), inmates |-> ret.list,
                     details |-> EmptyDict]
    /\ pc' = "responded"
    /\ UNCHANGED <<args, wire, soup, ret, events, failedAt, text, cleaned,
                   recleaned>>

\* api_details, up to the GET of get_inmate_details (lines 225, 69-70)
ApiDetails(id) ==
    /\ pc = "idle"
    /\ wire' = [method |-> "GET", url |-> <<"InmateDetail.aspx?InmateID=">> \o id,
                body |-> EmptyDict]
    /\ events' = <<"get_inmate_details", "GET">>
    /\ pc' = "d_get"
    /\ UNCHANGED <<args, soup, ret, resp, failedAt, text, cleaned, recleaned>>

\* lines 70-71
DetailGetReturns(page) ==
    /\ pc = "d_get"
    /\ soup' = page
    /\ wire' = NoWire
    /\ events' = Append(events, "GET_ret")
    /\ pc' = "d_parse"
    /\ UNCHANGED <<args, ret, resp, failedAt, text, cleaned, recleaned>>

\* lines 73-74
DetailParse ==
    /\ pc = "d_parse"
    /\ ret' = DictRet(parse_inmate_details(soup))
    /\ pc' = "d_ret"
    /\ UNCHANGED <<args, wire, soup, resp, events, failedAt, text, cleaned,
                   recleaned>>

\* lines 76-78: a failure raised at any point of get_inmate_details
DetailRaise ==
    /\ pc \in DetailPoints
    /\ failedAt' = pc
    /\ wire' = NoWire
    /\ ret' = IF TryCovers(pc) THEN NoneRet ELSE RaisedRet
    /\ pc' = "d_ret"
    /\ UNCHANGED <<args, soup, resp, events, text, cleaned, recleaned>>

\* lines 227-242: an empty dict and None are both falsy
ApiDetailsRespond ==
    /\ pc = "d_ret"
    /\ resp' = IF ret.kind = "raised"
               THEN [status |-> 500, kind |-> "error", count |-> 0,
                     inmates |-> <<>>, details |-> EmptyDict]
               ELSE IF ret.kind = "dict" /\ DOMAIN ret.dict # {}
               THEN [status |-> 200, kind |-> "success", count |-> 0,
                     inmates |-> <<>>, details |-> ret.dict]
               ELSE [status |-> 404, kind |-> "error", count |-> 0,
                     inmates |-> <<>>, details |-> EmptyDict]
    /\ pc' = "responded"
    /\ UNCHANGED <<args, wire, soup, ret, events, failedAt, text, cleaned,
                   recleaned>>

\* the server takes the next request
NextRequest ==
    /\ pc = "responded"
    /\ pc' = "idle"
    /\ args' = NoArgs
    /\ wire' = NoWire
    /\ soup' = NoSoup
    /\ ret' = NoRet
    /\ resp' = NoResp
    /\ events' = <<>>
    /\ failedAt' = "none"
    /\ UNCHANGED <<text, cleaned, recleaned>>

Next ==
    \/ \E l \in Params("Smith"), f \in Params("John"), b \in Params("B1") :
          ApiSearch(l, f, b)
    \/ \E page \in FormPages : SearchGetReturns(page)
    \/ SearchPost
    \/ SearchPostReturns
    \/ \E page \in ResultPages : SearchSoup(page)
    \/ SearchParse
    \/ SearchRaise
    \/ ApiSearchRespond
    \/ \E id \in InmateIds : ApiDetails(id)
    \/ \E page \in DetailPages : DetailGetReturns(page)
    \/ DetailParse
    \/ DetailRaise
    \/ ApiDetailsRespond
    \/ NextRequest

Spec == Init /\ [][Next]_vars

(***************************************************************************)
(* _clean_text as a function of its argument                               *)
(***************************************************************************)
InitClean ==
    /\ pc = "c_start"
    /\ text \in Texts
    /\ cleaned = <<>>
    /\ recleaned = <<>>
    /\ args = NoArgs
    /\ wire = NoWire
    /\ soup = NoSoup
    /\ ret = NoRet
    /\ resp = NoResp
    /\ events = <<>>
    /\ failedAt = "none"

CleanOnce ==
    /\ pc = "c_start"
    /\ cleaned' = clean_text(text)
    /\ pc' = "c_once"
    /\ UNCHANGED <<args, wire, soup, ret, resp, events, failedAt, text,
                   recleaned>>

CleanTwice ==
    /\ pc = "c_once"
    /\ recleaned' = clean_text(cleaned)
    /\ pc' = "c_twice"
    /\ UNCHANGED <<args, wire, soup, ret, resp, events, failedAt, text,
                   cleaned>>

NextClean == CleanOnce \/ CleanTwice

SpecClean == InitClean /\ [][NextClean]_vars

(***************************************************************************)
(* Properties                                                              *)
(***************************************************************************)
Parsed == pc = "s_ret" /\ failedAt = "none"
DetailParsed == pc = "d_ret" /\ failedAt = "none"

HasThree(r) == Len(r) >= 3

\* the data rows of the located table that have at least 3 cells, in order
SummaryRows(page) ==
    LET t == LocateResultsTable(page.tables) IN
    IF t = 0 \/ page.tables[t].rows = <<>> THEN <<>>
    ELSE SelectSeq(Tail(page.tables[t].rows), HasThree)

Trimmed(t) == t = <<>> \/ (t[1] \notin WS /\ t[Len(t)] \notin WS)
NoRun(t) == \A i \in 1..Len(t) - 1 : ~(t[i] \in WS /\ t[i + 1] \in WS)
OnlySpaces(t) == \A i \in 1..Len(t) : t[i] \in WS => t[i] = " "
Populated(t) == \E i \in 1..Len(t) : t[i] \notin WS

\* C1: a failure raised at any point of search_inmates gives the empty
\* list, one raised at any point of get_inmate_details gives None, and no
\* failure reaches the caller.
C1_FailuresBecomeEmpty ==
    /\ ret.kind # "raised"
    /\ resp.status # 500
    /\ (failedAt \in SearchPoints => ret.kind = "list" /\ ret.list = <<>>)
    /\ (failedAt \in DetailPoints => ret.kind = "None")

C1_Witness ==
    /\ pc = "responded"
    /\ failedAt = "s_parse"
    /\ resp.status = 200
    /\ resp.inmates = <<>>

\* C2: the parse returns one summary per data row of the located table that
\* has at least 3 cells, in the order of the rows: all N of them when every
\* data row has at least 3 cells, and only the shorter rows are dropped.
C2_OneSummaryPerRow ==
    Parsed /\ LocateResultsTable(soup.tables) # 0
           /\ soup.tables[LocateResultsTable(soup.tables)].rows # <<>> =>
        LET rows == Tail(soup.tables[LocateResultsTable(soup.tables)].rows)
            kept == SelectSeq(rows, HasThree)
        IN  /\ ret.kind = "list"
            /\ Len(ret.list) = Cardinality({i \in 1..Len(rows) : Len(rows[i]) >= 3})
            /\ ((\A i \in 1..Len(rows) : Len(rows[i]) >= 3) =>
                   Len(ret.list) = Len(rows))
            /\ ((\E i \in 1..Len(rows) : Len(rows[i]) < 3) =>
                   Len(ret.list) < Len(rows))
            /\ Len(ret.list) = Len(kept)
            /\ \A k \in 1..Len(kept) :
                   Populated(kept[k][1].text) =>
                       ret.list[k].name = Join(Split(kept[k][1].text), <<" ">>)

C2_Witness ==
    /\ Parsed
    /\ Len(soup.tables) = 1
    /\ Len(soup.tables[1].rows) = 3
    /\ soup.tables[1].rows[1] = TdHeader
    /\ Len(soup.tables[1].rows[2]) = 2
    /\ Len(soup.tables[1].rows[3]) = 3
    /\ Len(ret.list) = 1
    /\ ret.list[1].name = <<"r2">>

\* C3: _clean_text is idempotent for every text, and its result has no run
\* of whitespace and no newline.
C3_Idempotent ==
    pc = "c_twice" =>
        /\ recleaned = cleaned
        /\ NoRun(cleaned)
        /\ OnlySpaces(cleaned)

FieldNames == <<"name", "booking_number", "booking_date", "age", "gender",
                "race">>

\* C4: every text of a summary (each field) and of a detail record (each
\* key, each value, each charge) has no leading or trailing whitespace and
\* no run of two or more whitespace characters.
C4_AllTextsNormalized ==
    /\ (Parsed =>
           \A k \in 1..Len(ret.list) : \A f \in DOMAIN ret.list[k] :
               Trimmed(ret.list[k][f]) /\ NoRun(ret.list[k][f]))
    /\ (DetailParsed =>
           \A key \in DOMAIN ret.dict :
               /\ Trimmed(key) /\ NoRun(key)
               /\ Trimmed(ret.dict[key].text) /\ NoRun(ret.dict[key].text)
               /\ \A c \in 1..Len(ret.dict[key].list) :
                      /\ Trimmed(ret.dict[key].list[c])
                      /\ NoRun(ret.dict[key].list[c]))

\* C5: in every summary the six positional fields come from cells 0 to 5 in
\* order: a field whose cell is absent or not populated is 'N/A', every
\* other field is the normalized text of its own cell; facility and source
\* are constants.
C5_PositionalFields ==
    Parsed =>
        LET kept == SummaryRows(soup) IN
        /\ Len(ret.list) = Len(kept)
        /\ \A k \in 1..Len(kept) :
              /\ \A i \in 1..6 :
                    ret.list[k][FieldNames[i]] =
                        IF i > Len(kept[k]) \/ ~Populated(kept[k][i].text)
                        THEN NA
                        ELSE Join(Split(kept[k][i].text), <<" ">>)
              /\ ret.list[k].facility = <<"Sedgwick", " ", "County", " ", "Jail">>
              /\ ret.list[k].source = <<"sedgwick_county">>

\* an href in which "InmateID=" is directly followed by a digit
CarriesNumericId(h) ==
    \E i \in 1..Len(h) - 1 : h[i] = "InmateID=" /\ h[i + 1] \in Digits

\* the digits that follow the first such "InmateID="
NumericIdOf(h) ==
    LET i == CHOOSE i \in 1..Len(h) - 1 :
                 /\ h[i] = "InmateID=" /\ h[i + 1] \in Digits
                 /\ \A j \in 1..i - 1 :
                        ~(h[j] = "InmateID=" /\ h[j + 1] \in Digits)
        e == CHOOSE e \in i + 1..Len(h) :
                 /\ \A j \in i + 1..e : h[j] \in Digits
                 /\ (e = Len(h) \/ h[e + 1] \notin Digits)
    IN  SubSeq(h, i + 1, e)

\* C6 as stated: a summary has an inmate_id field if and only if its first
\* cell contains a link whose href carries a numeric id, and the field is
\* then the numeric id of such a link.
C6_IdIffSomeLink ==
    Parsed =>
        LET kept == SummaryRows(soup) IN
        /\ Len(ret.list) = Len(kept)
        /\ \A k \in 1..Len(kept) :
              LET ls == kept[k][1].links
                  carriers == {i \in 1..Len(ls) :
                                  ls[i].href.has /\ CarriesNumericId(ls[i].href.v)}
              IN  /\ "inmate_id" \in DOMAIN ret.list[k] <=> carriers # {}
                  /\ "inmate_id" \in DOMAIN ret.list[k] =>
                        \E i \in carriers :
                            ret.list[k].inmate_id = NumericIdOf(ls[i].href.v)

\* C6 amended: a summary has an inmate_id field if and only if the first
\* link of its first cell has an href that carries a numeric id; the field
\* is then the digits of that id, and it is absent otherwise.
C6_IdIffFirstLink ==
    Parsed =>
        LET kept == SummaryRows(soup) IN
        /\ Len(ret.list) = Len(kept)
        /\ \A k \in 1..Len(kept) :
              LET ls == kept[k][1].links
                  carries == /\ ls # <<>>
                             /\ ls[1].href.has
                             /\ CarriesNumericId(ls[1].href.v)
              IN  /\ "inmate_id" \in DOMAIN ret.list[k] <=> carries
                  /\ carries =>
                        /\ ret.list[k].inmate_id = NumericIdOf(ls[1].href.v)
                        /\ ret.list[k].inmate_id # <<>>
                        /\ \A j \in 1..Len(ret.list[k].inmate_id) :
                               ret.list[k].inmate_id[j] \in Digits

C6_Witness ==
    /\ Parsed
    /\ Len(ret.list) = 1
    /\ "inmate_id" \in DOMAIN ret.list[1]
    /\ ret.list[1].inmate_id = <<"7">>
    /\ Len(soup.tables) = 1
    /\ Len(soup.tables[1].rows) = 2
    /\ Len(soup.tables[1].rows[2][1].links) = 2
    /\ ~soup.tables[1].rows[2][1].links[2].href.has

HasCell(r) == r # <<>>

\* the rows after the first row of the charges table
ChargeRowsOf(page) ==
    LET t == FindByChargesId(page.tables) IN
    IF t = 0 \/ page.tables[t].rows = <<>> THEN <<>>
    ELSE Tail(page.tables[t].rows)

ChargesPresent(page) ==
    \E i \in 1..Len(page.tables) :
        page.tables[i].id.has /\
        \E j \in 1..Len(page.tables[i].id.v) :
            page.tables[i].id.v[j] \in {"Charges", "charges"}

\* C7 as stated: the mapping holds, for each label with a following
\* sibling, the label's text mapped to the sibling's text and, when a
\* charges table is present, one string per non-header row under 'charges'.
C7_EveryLabelEveryRow ==
    DetailParsed =>
        /\ ret.kind = "dict"
        /\ \A i \in 1..Len(soup.labels) :
              soup.labels[i].hasSibling =>
                  /\ clean_text(soup.labels[i].text) \in DOMAIN ret.dict
                  /\ ret.dict[clean_text(soup.labels[i].text)] =
                         TextVal(clean_text(soup.labels[i].sibling))
        /\ ChargesPresent(soup) =>
              /\ ChargesKey \in DOMAIN ret.dict
              /\ ret.dict[ChargesKey].kind = "list"
              /\ Len(ret.dict[ChargesKey].list) = Len(ChargeRowsOf(soup))
              /\ \A r \in 1..Len(ChargeRowsOf(soup)) :
                    ret.dict[ChargesKey].list[r] =
                        Join([c \in 1..Len(ChargeRowsOf(soup)[r]) |->
                                 clean_text(ChargeRowsOf(soup)[r][c].text)], <<" ">>)

\* C7 amended: the mapping holds, for each label with a following sibling,
\* under the label's text the text of the sibling of the last such label
\* of that text, unless that key is 'charges' and a charges table is
\* present; with a charges table, 'charges' holds one string per non-header
\* row that has at least one cell, in order.  One label and a charges table
\* of 2 rows with cells give that label's value and 2 charges.
C7_LastLabelRowsWithCells ==
    DetailParsed =>
        LET rows == SelectSeq(ChargeRowsOf(soup), HasCell) IN
        /\ ret.kind = "dict"
        /\ \A i \in 1..Len(soup.labels) :
              soup.labels[i].hasSibling =>
                  LET key == clean_text(soup.labels[i].text)
                      same == {j \in 1..Len(soup.labels) :
                                  /\ soup.labels[j].hasSibling
                                  /\ clean_text(soup.labels[j].text) = key}
                      last == CHOOSE j \in same : \A m \in same : m <= j
                  IN  /\ key \in DOMAIN ret.dict
                      /\ ~(key = ChargesKey /\ ChargesPresent(soup)) =>
                            ret.dict[key] = TextVal(clean_text(soup.labels[last].sibling))
        /\ ChargesPresent(soup) =>
              /\ ChargesKey \in DOMAIN ret.dict
              /\ ret.dict[ChargesKey].kind = "list"
              /\ Len(ret.dict[ChargesKey].list) = Len(rows)
              /\ \A r \in 1..Len(rows) :
                    ret.dict[ChargesKey].list[r] =
                        Join([c \in 1..Len(rows[r]) |-> clean_text(rows[r][c].text)],
                             <<" ">>)
        /\ ~ChargesPresent(soup) =>
              \A key \in DOMAIN ret.dict : ret.dict[key].kind = "text"

C7_Witness ==
    /\ DetailParsed
    /\ Len(soup.labels) = 1
    /\ Len(soup.tables) = 1
    /\ Len(soup.tables[1].rows) = 3
    /\ soup.tables[1].rows[1] = TdHeader
    /\ DOMAIN ret.dict = {<<"Name">>, ChargesKey}
    /\ ret.dict[<<"Name">>].text = <<"v">>
    /\ Len(ret.dict[ChargesKey].list) = 2
    /\ ret.dict[ChargesKey].list[2] = <<"a", " ", "b", " ", "a", " ", "b">>

AllEmpty(q) ==
    q.last_name = <<>> /\ q.first_name = <<>> /\ q.booking_number = <<>>

\* the step in which api_search handles a request
SearchRequestStep == pc = "idle" /\ pc' \in {"responded", "s_get"}

\* C8: search_inmates is invoked, and an upstream request is made, only for
\* a query with a non-empty field; a query whose three fields are empty or
\* absent is answered 400 with an empty inmates list and no invocation.
C8_DispatchOnlyWithAField ==
    /\ [][SearchRequestStep =>
             IF AllEmpty(args')
             THEN /\ pc' = "responded"
                  /\ resp'.status = 400
                  /\ resp'.kind = "error"
                  /\ resp'.inmates = <<>>
                  /\ events' = <<>>
                  /\ wire' = NoWire
             ELSE /\ pc' = "s_get"
                  /\ events' = <<"search_inmates", "GET">>
                  /\ resp' = NoResp]_vars
    /\ [](pc \in {"s_get", "s_form", "s_post"} => ~AllEmpty(args))
    /\ [](resp.status = 400 => events = <<>> /\ wire = NoWire /\ ret = NoRet)

C8_Witness ==
    /\ pc = "responded"
    /\ resp.status = 400
    /\ resp.inmates = <<>>
    /\ events = <<>>

PostBodyFields == TokenNames \cup QueryNames \cup {"btnSearch"}

QueryInBody(body, q) ==
    /\ body["txtLastName"] = q.last_name
    /\ body["txtFirstName"] = q.first_name
    /\ body["txtBookingNumber"] = q.booking_number
    /\ body["btnSearch"] = <<"Search">>

PostAfterGet ==
    /\ wire.method = "POST"
    /\ events = <<"search_inmates", "GET", "GET_ret", "POST">>

\* C9 as stated: the POST follows the return of the GET and its body holds
\* exactly the three token fields, the three query fields and btnSearch;
\* each token equals the value of its hidden input, the empty string when
\* the input is missing.
C9_AllTokensSent ==
    pc = "s_post" =>
        /\ PostAfterGet
        /\ DOMAIN wire.body = PostBodyFields
        /\ QueryInBody(wire.body, args)
        /\ \A t \in TokenNames :
              wire.body[t] = IF soup[t].present /\ soup[t].value.has
                             THEN soup[t].value.v ELSE <<>>

\* C9 amended: the POST follows the return of the GET and its body holds
\* exactly the three query fields, btnSearch and one token field for each
\* hidden input the page has; a token equals the value of its input, the
\* empty string when the input has no value, and the token of a missing
\* input is not sent.
C9_PresentTokensSent ==
    pc = "s_post" =>
        /\ PostAfterGet
        /\ DOMAIN wire.body =
              {t \in TokenNames : soup[t].present} \cup QueryNames \cup {"btnSearch"}
        /\ QueryInBody(wire.body, args)
        /\ \A t \in TokenNames :
              soup[t].present =>
                  wire.body[t] = IF soup[t].value.has
                                 THEN soup[t].value.v ELSE <<>>

C9_Witness ==
    /\ pc = "s_post"
    /\ ~soup["__VIEWSTATE"].present
    /\ soup["__VIEWSTATEGENERATOR"].present
    /\ ~soup["__VIEWSTATEGENERATOR"].value.has
    /\ DOMAIN wire.body = {"__VIEWSTATEGENERATOR", "__EVENTVALIDATION"}
                              \cup QueryNames \cup {"btnSearch"}
    /\ wire.body["__VIEWSTATEGENERATOR"] = <<>>
    /\ wire.body["__EVENTVALIDATION"] = <<"tokB", " ">>

IdHasGrid(t) ==
    t.id.has /\ \E i \in 1..Len(t.id.v) : t.id.v[i] \in {"grid", "Grid", "GRID"}

IdHasGridView(t) ==
    t.id.has /\ \E i \in 1..Len(t.id.v) - 1 :
        /\ t.id.v[i] \in {"grid", "Grid", "GRID"}
        /\ t.id.v[i + 1] \in {"view", "View"}

ClassHasGridOrResult(t) ==
    t.class.has /\ \E i \in 1..Len(t.class.v) :
        t.class.v[i] \in {"grid", "Grid", "GRID", "result", "Result"}

\* the summaries of the first table of ids or, when ids is empty, of cls
SummariesOfChoice(tables, ids, cls) ==
    LET pick == IF ids # {} THEN ids ELSE cls
    IN  IF pick = {} THEN <<>>
        ELSE LET t == CHOOSE i \in pick : \A j \in pick : i <= j
             IN  SelectSeq(SkipHeader(tables[t].rows), HasThree)

SameNames(list, rows) ==
    /\ Len(list) = Len(rows)
    /\ \A k \in 1..Len(rows) :
          Populated(rows[k][1].text) =>
              list[k].name = Join(Split(rows[k][1].text), <<" ">>)

\* C10 as stated: the results table is the first table whose id matches
\* "grid" or, when none does, the first whose class matches "grid" or
\* "result"; with no such table the result is empty.
C10_IdGrid ==
    Parsed =>
        SameNames(ret.list,
                  SummariesOfChoice(soup.tables,
                      {i \in 1..Len(soup.tables) : IdHasGrid(soup.tables[i])},
                      {i \in 1..Len(soup.tables) :
                          ClassHasGridOrResult(soup.tables[i])}))

\* C10 amended: the results table is the first table whose id matches
\* "GridView" case-insensitively or, only when no table matches by id, the
\* first whose class matches "grid" or "result"; with no such table the
\* result is empty, and a match by id wins over any match by class.
C10_IdGridView ==
    Parsed =>
        SameNames(ret.list,
                  SummariesOfChoice(soup.tables,
                      {i \in 1..Len(soup.tables) : IdHasGridView(soup.tables[i])},
                      {i \in 1..Len(soup.tables) :
                          ClassHasGridOrResult(soup.tables[i])}))

C10_Witness ==
    /\ Parsed
    /\ Len(soup.tables) = 2
    /\ ~soup.tables[1].id.has
    /\ soup.tables[1].class = Attr(<<"Result", "x">>)
    /\ soup.tables[2].id = Attr(<<"x", "grid", "view">>)
    /\ Len(ret.list) = 1
    /\ ret.list[1].name = <<"t2">>

====
